---- MODULE Spec2Model ----
(***************************************************************************)
(* Model of the wine classification service (app.py): module start-up,     *)
(* _validate_and_build_matrix, and the handlers index and predict.         *)
(*                                                                         *)
(* Python and JSON values are tagged records so that values of different   *)
(* Python types can be told apart: a JSON scalar is [t, n, s], a Python    *)
(* exception is the name of its class, and "" stands for "no exception".   *)
(***************************************************************************)
EXTENDS Integers, Sequences, FiniteSets, TLC

VARIABLES
    modelFile,      \* model.joblib on disk: [exists, hasProba, classes]
    featuresFile,   \* features.json on disk: [exists, feature_order]
    state,          \* "uninitialized" | "ready"
    exited,         \* TRUE once the import of app.py raised FileNotFoundError
    MODEL,          \* process-wide fitted pipeline
    FEATURE_ORDER,  \* process-wide feature schema
    CLASS_NAMES,    \* process-wide class label set
    req             \* per worker: the request it holds and that request's locals

vars == <<modelFile, featuresFile, state, exited, MODEL, FEATURE_ORDER, CLASS_NAMES, req>>

globals == <<MODEL, FEATURE_ORDER, CLASS_NAMES>>

disk == <<modelFile, featuresFile>>

----------------------------------------------------------------------------
(* Bounds *)

\* longest "instances" list a request carries
MaxBatch == 2

\* number of concurrently running request workers (ConcurrentSpec)
NumWorkers == 2

Workers == 1..NumWorkers

----------------------------------------------------------------------------
(* JSON / Python values *)

Num(k) == [t |-> "num", n |-> k, s |-> ""]

Str(x) == [t |-> "str", n |-> 0, s |-> x]

Null == [t |-> "null", n |-> 0, s |-> ""]

\* values a caller puts under a feature name: a number, a numeric string,
\* a non-numeric string, null (float(None) raises TypeError, as it does for a
\* list or an object)
Values == {Num(1), Str("2"), Str("abc"), Null}

\* the strings Python's float() parses, with the number each one denotes
NumericStrings == [x \in {"2", "7"} |-> IF x = "2" THEN 2 ELSE 7]

\* float(v): [exc, val]; TypeError for null / list / object, ValueError for
\* a string that is no number
float(v) ==
    CASE v.t = "num" -> [exc |-> "", val |-> v.n]
      [] v.t = "str" -> IF v.s \in DOMAIN NumericStrings
                        THEN [exc |-> "", val |-> NumericStrings[v.s]]
                        ELSE [exc |-> "ValueError", val |-> 0]
      [] OTHER -> [exc |-> "TypeError", val |-> 0]

\* the exception classes caught by "except Exception" around float(v)
CoercionCaught_OnlyValueError(exc) == exc = "ValueError"

CoercionCaught(exc) == exc # ""

----------------------------------------------------------------------------
(* Artifacts *)

\* load_wine().target_names
WineClassNames == <<"class_0", "class_1", "class_2">>

\* the feature order written by train_model.save_artifacts (a prefix of the
\* wine feature names), and the same names in another order
FeatureOrders == {<<"alcohol", "malic_acid">>, <<"malic_acid", "alcohol">>}

ExtraKey == "hue_extra"

Keys == {"alcohol", "malic_acid", ExtraKey}

\* the pipelines model.joblib may hold: one paired with the label set, and
\* one with no predict_proba whose class ids do not match the label set
Pipelines ==
    {[loaded |-> TRUE, hasProba |-> TRUE, classes |-> {0, 1, 2}],
     [loaded |-> TRUE, hasProba |-> FALSE, classes |-> {-4, -1, 1, 3}]}

NoModel == [loaded |-> FALSE, hasProba |-> FALSE, classes |-> {}]

----------------------------------------------------------------------------
(* Request bodies *)

\* an instance record: a JSON object (d maps its keys to values) or some
\* other JSON value
\* (the value under the extra key is never read: one value stands for all)
DictRows ==
    {d \in UNION {[K -> Values] : K \in SUBSET Keys} :
        ExtraKey \in DOMAIN d => d[ExtraKey] = Str("abc")}

Rows == {[kind |-> "dict", d |-> d] : d \in DictRows}
            \cup {[kind |-> "other", d |-> <<>>]}

RECURSIVE SeqsUpTo(_, _)
SeqsUpTo(S, n) ==
    IF n = 0 THEN {<<>>}
    ELSE LET shorter == SeqsUpTo(S, n - 1)
         IN  shorter \cup {Append(q, x) : q \in {z \in shorter : Len(z) = n - 1}, x \in S}

\* the value under the "instances" key: a list of instances, or not a list
InstancesValues ==
    {[kind |-> "list", items |-> q] : q \in SeqsUpTo(Rows, MaxBatch)}
        \cup {[kind |-> "other", items |-> <<>>]}

NoInstances == [kind |-> "other", items |-> <<>>]

\* a request body.  kind: what the bytes parse to ("malformed": not JSON);
\* has: whether Python's  "instances" in payload  is true for a dict (key),
\* a list (element) or a string (substring)
Bodies ==
    {[kind |-> "dict", has |-> TRUE, instances |-> v] : v \in InstancesValues}
        \cup {[kind |-> k, has |-> h, instances |-> NoInstances] :
                  k \in {"dict"}, h \in {FALSE}}
        \cup {[kind |-> k, has |-> h, instances |-> NoInstances] :
                  k \in {"list", "str"}, h \in BOOLEAN}
        \cup {[kind |-> k, has |-> FALSE, instances |-> NoInstances] :
                  k \in {"num", "null", "malformed"}}

----------------------------------------------------------------------------
(* _validate_and_build_matrix *)

Err(m, i, fs) == [msg |-> m, idx |-> i, feats |-> fs]

NoErr == Err("", -1, <<>>)

\* missing = [f for f in FEATURE_ORDER if f not in row]
Missing_FirstOnly(row) ==
    LET absent(f) == f \notin DOMAIN row.d
        m == SelectSeq(FEATURE_ORDER, absent)
    IN  IF m = <<>> THEN m ELSE <<Head(m)>>

Missing(row) ==
    LET absent(f) == f \notin DOMAIN row.d
    IN  SelectSeq(FEATURE_ORDER, absent)

\* the loop  for f in FEATURE_ORDER: v = float(row[f]) ...  from feature j on
RECURSIVE CoerceFrom(_, _, _, _)
CoerceFrom(row, idx, j, values) ==
    IF j > Len(FEATURE_ORDER) THEN [exc |-> "", err |-> NoErr, values |-> values]
    ELSE LET f == FEATURE_ORDER[j]
             c == float(row.d[f])
         IN  IF c.exc # ""
             THEN IF CoercionCaught(c.exc)
                  THEN [exc |-> "ValueError", err |-> Err("not_numeric", idx, <<f>>),
                        values |-> <<>>]
                  ELSE [exc |-> c.exc, err |-> NoErr, values |-> <<>>]
             ELSE CoerceFrom(row, idx, j + 1, Append(values, c.val))

\* a validation that also rejects a record carrying a key outside the schema
ValidateRow_RejectExtra(row, idx) ==
    IF row.kind # "dict"
    THEN [exc |-> "ValueError", err |-> Err("not_object", idx, <<>>), values |-> <<>>]
    ELSE IF Missing(row) # <<>>
    THEN [exc |-> "ValueError", err |-> Err("missing", idx, Missing(row)), values |-> <<>>]
    ELSE IF \E k \in DOMAIN row.d : \A j \in 1..Len(FEATURE_ORDER) : FEATURE_ORDER[j] # k
    THEN [exc |-> "ValueError", err |-> Err("extra", idx, <<>>), values |-> <<>>]
    ELSE CoerceFrom(row, idx, 1, <<>>)

\* the body of  for idx, row in enumerate(instances)  for one row
\* (idx is 0-based, as enumerate counts)
ValidateRow(row, idx) ==
    IF row.kind # "dict"
    THEN [exc |-> "ValueError", err |-> Err("not_object", idx, <<>>), values |-> <<>>]
    ELSE IF Missing(row) # <<>>
    THEN [exc |-> "ValueError", err |-> Err("missing", idx, Missing(row)), values |-> <<>>]
    ELSE CoerceFrom(row, idx, 1, <<>>)

RECURSIVE BuildRows(_, _, _)
BuildRows(items, i, X_rows) ==
    IF i > Len(items) THEN [exc |-> "", err |-> NoErr, X |-> X_rows]
    ELSE LET r == ValidateRow(items[i], i - 1)
         IN  IF r.exc # "" THEN [exc |-> r.exc, err |-> r.err, X |-> <<>>]
             ELSE BuildRows(items, i + 1, Append(X_rows, r.values))

_validate_and_build_matrix(instances) ==
    IF instances.kind # "list" \/ Len(instances.items) = 0
    THEN [exc |-> "ValueError", err |-> Err("not_nonempty_list", -1, <<>>), X |-> <<>>]
    ELSE BuildRows(instances.items, 1, <<>>)

\* the value of the local X before the call returned
NotValidated == [exc |-> "not_run", err |-> NoErr, X |-> <<>>]

----------------------------------------------------------------------------
(* The fitted pipeline, as far as app.py relies on it *)

\* what MODEL.predict(X) / MODEL.predict_proba(X) do on n rows: return one
\* class id per row, or raise (sklearn raises ValueError when X does not have
\* the shape the pipeline was fit on)
PipelineOutcomes(n) ==
    {[exc |-> "", preds |-> p] : p \in [1..n -> MODEL.classes]}
        \cup {[exc |-> e, preds |-> <<>>] : e \in {"ValueError", "RuntimeError"}}

NotCalled == [exc |-> "not_called", preds |-> <<>>]

\* MODEL.predict_proba(X).tolist(): one row per instance, one entry per class
ProbaRows(n) == [i \in 1..n |-> [c \in 1..Cardinality(MODEL.classes) |-> "p"]]

----------------------------------------------------------------------------
(* Python values of the response, and jsonify *)

PyList(q) == [t |-> "list", v |-> q]

PyNone == [t |-> "None", v |-> <<>>]

PyStr(e) == [t |-> "str", v |-> e]

JsonNull == [t |-> "null", v |-> <<>>]

\* jsonify: every key of the dict is kept; None becomes null, a list an
\* array, a str a string
jsonify(d) ==
    [k \in DOMAIN d |->
        CASE d[k].t = "None" -> JsonNull
          [] d[k].t = "list" -> [t |-> "array", v |-> d[k].v]
          [] OTHER -> [t |-> "string", v |-> d[k].v]]

\* CLASS_NAMES[i] with Python's list indexing: [exc, name]
PyIndex(names, i) ==
    LET n == Len(names)
    IN  IF i >= 0 /\ i < n THEN [exc |-> "", name |-> names[i + 1]]
        ELSE IF i < 0 /\ i >= -n THEN [exc |-> "", name |-> names[n + i + 1]]
        ELSE [exc |-> "IndexError", name |-> ""]

\* classes_str = [CLASS_NAMES[i] for i in preds]
ClassesStr(preds) ==
    IF \E j \in 1..Len(preds) : PyIndex(CLASS_NAMES, preds[j]).exc # ""
    THEN [exc |-> "IndexError", classes |-> <<>>]
    ELSE [exc |-> "", classes |-> [j \in 1..Len(preds) |-> PyIndex(CLASS_NAMES, preds[j]).name]]

\* probas = MODEL.predict_proba(X).tolist() if hasattr(MODEL, "predict_proba") else None
Probas_EmptyList(n) == IF MODEL.hasProba THEN PyList(ProbaRows(n)) ELSE PyList(<<>>)

Probas(n) == IF MODEL.hasProba THEN PyList(ProbaRows(n)) ELSE PyNone

\* the two except clauses of predict
ErrorResponse(exc, err) ==
    IF exc = "ValueError"
    THEN [status |-> 400, resp |-> jsonify([error |-> PyStr(err)])]
    ELSE [status |-> 500, resp |-> jsonify([error |-> PyStr(Err("internal", -1, <<>>))])]

\* request.get_json(force=True, silent=False)
get_json(body) == IF body.kind = "malformed" THEN "BadRequest" ELSE ""

\* "instances" not in payload: [exc, absent]
NotInPayload(body) ==
    IF body.kind \in {"dict", "list", "str"}
    THEN [exc |-> "", absent |-> ~body.has]
    ELSE [exc |-> "TypeError", absent |-> FALSE]

\* payload["instances"]
GetInstances(body) == IF body.kind = "dict" THEN "" ELSE "TypeError"

\* whether predict gets as far as calling the pipeline on this body
ReachesPipeline(body) ==
    /\ get_json(body) = ""
    /\ NotInPayload(body).exc = "" /\ ~NotInPayload(body).absent
    /\ GetInstances(body) = ""
    /\ _validate_and_build_matrix(body.instances).exc = ""

OutcomesFor(body) ==
    IF ReachesPipeline(body)
    THEN PipelineOutcomes(Len(_validate_and_build_matrix(body.instances).X))
    ELSE {NotCalled}

\* the body of predict: [val, preds, status, resp] for a request body and
\* what the pipeline does when called
PredictResult(body, po) ==
    LET out(val, preds, r) ==
            [val |-> val, preds |-> preds, status |-> r.status, resp |-> r.resp]
        val == _validate_and_build_matrix(body.instances)
    IN  IF get_json(body) # ""
        THEN out(NotValidated, <<>>, ErrorResponse(get_json(body), NoErr))
        ELSE IF NotInPayload(body).exc # ""
        THEN out(NotValidated, <<>>, ErrorResponse(NotInPayload(body).exc, NoErr))
        ELSE IF NotInPayload(body).absent
        THEN out(NotValidated, <<>>,
                 [status |-> 400,
                  resp |-> jsonify([error |-> PyStr(Err("no_instances_key", -1, <<>>))])])
        ELSE IF GetInstances(body) # ""
        THEN out(NotValidated, <<>>, ErrorResponse(GetInstances(body), NoErr))
        ELSE IF val.exc # ""
        THEN out(val, <<>>, ErrorResponse(val.exc, val.err))
        ELSE IF po.exc # ""
        THEN out(val, <<>>, ErrorResponse(po.exc, Err("pipeline", -1, <<>>)))
        ELSE IF ClassesStr(po.preds).exc # ""
        THEN out(val, po.preds, ErrorResponse(ClassesStr(po.preds).exc, NoErr))
        ELSE out(val, po.preds,
                 [status |-> 200,
                  resp |-> jsonify([predictions |-> PyList(po.preds),
                                    classes |-> PyList(ClassesStr(po.preds).classes),
                                    probas |-> Probas(Len(val.X)),
                                    class_names |-> PyList(CLASS_NAMES)])])

----------------------------------------------------------------------------
(* State machine *)

NoBody == [kind |-> "none", has |-> FALSE, instances |-> NoInstances]

NoResp == [none |-> JsonNull]

Idle ==
    [pc |-> "idle", route |-> "", body |-> NoBody, val |-> NotValidated,
     preds |-> <<>>, status |-> 0, resp |-> NoResp]

Routes == {"GET /", "POST /predict"}

NoFile == [exists |-> FALSE, pipeline |-> NoModel, feature_order |-> <<>>]

\* what the operator left in the working directory before starting the service
Init ==
    /\ modelFile \in {NoFile} \cup
           {[exists |-> TRUE, pipeline |-> m, feature_order |-> <<>>] : m \in Pipelines}
    /\ featuresFile \in {NoFile} \cup
           {[exists |-> TRUE, pipeline |-> NoModel, feature_order |-> fo] : fo \in FeatureOrders}
    /\ state = "uninitialized"
    /\ exited = FALSE
    /\ MODEL = NoModel
    /\ FEATURE_ORDER = <<>>
    /\ CLASS_NAMES = <<>>
    /\ req = [r \in Workers |-> Idle]

\* if not MODEL_PATH.exists() or not FEATURES_PATH.exists()
ArtifactsMissing_Both(m, f) == ~m.exists /\ ~f.exists

ArtifactsMissing(m, f) == ~m.exists \/ ~f.exists

\* import of app.py: the artifact check, the loads, app = Flask(__name__)
Startup ==
    /\ state = "uninitialized" /\ ~exited
    /\ \/ /\ ArtifactsMissing(modelFile, featuresFile)
          /\ exited' = TRUE
          /\ UNCHANGED <<state, globals>>
       \/ /\ ~ArtifactsMissing(modelFile, featuresFile)
          /\ MODEL' = modelFile.pipeline
          /\ FEATURE_ORDER' = featuresFile.feature_order
          /\ CLASS_NAMES' = WineClassNames
          /\ state' = "ready"
          /\ UNCHANGED exited
    /\ UNCHANGED <<disk, req>>

\* the server hands a request to worker r
Arrive(r, route) ==
    /\ state = "ready"
    /\ req[r].pc = "idle"
    /\ req' = [req EXCEPT ![r] = [Idle EXCEPT !.pc = "arrived", !.route = route]]
    /\ UNCHANGED <<disk, state, exited, globals>>

\* GET /
index(r) ==
    /\ state = "ready"
    /\ req[r].pc = "arrived" /\ req[r].route = "GET /"
    /\ req' = [req EXCEPT ![r] =
                  [@ EXCEPT !.pc = "done", !.status = 200,
                            !.resp = jsonify([message |-> PyStr("up"),
                                              expected_features |-> PyList(FEATURE_ORDER),
                                              predict_endpoint |-> PyStr("/predict")])]]
    /\ UNCHANGED <<disk, state, exited, globals>>

\* a handler that empties the shared label list while building its response
predict_ClearsClassNames(r, bodies) ==
    /\ state = "ready"
    /\ req[r].pc = "arrived" /\ req[r].route = "POST /predict"
    /\ \E body \in bodies : \E po \in OutcomesFor(body) :
          LET res == PredictResult(body, po)
          IN  req' = [req EXCEPT ![r] =
                         [@ EXCEPT !.pc = "done", !.body = body, !.val = res.val,
                                   !.preds = res.preds, !.status = res.status,
                                   !.resp = res.resp]]
    /\ CLASS_NAMES' = <<>>
    /\ UNCHANGED <<disk, state, exited, MODEL, FEATURE_ORDER>>

\* POST /predict, on a request whose bytes are one of bodies
predict(r, bodies) ==
    /\ state = "ready"
    /\ req[r].pc = "arrived" /\ req[r].route = "POST /predict"
    /\ \E body \in bodies : \E po \in OutcomesFor(body) :
          LET res == PredictResult(body, po)
          IN  req' = [req EXCEPT ![r] =
                         [@ EXCEPT !.pc = "done", !.body = body, !.val = res.val,
                                   !.preds = res.preds, !.status = res.status,
                                   !.resp = res.resp]]
    /\ UNCHANGED <<disk, state, exited, globals>>

\* the response is sent; the request's locals are discarded
Reply(r) ==
    /\ req[r].pc = "done"
    /\ req' = [req EXCEPT ![r] = Idle]
    /\ UNCHANGED <<disk, state, exited, globals>>

\* one request at a time, every body up to MaxBatch instances
Next ==
    \/ Startup
    \/ \E route \in Routes : Arrive(1, route)
    \/ index(1)
    \/ predict(1, Bodies)
    \/ Reply(1)

Spec == Init /\ [][Next]_vars

\* bodies of the concurrent workers: a valid instance (with an extra key), an
\* instance missing a feature, a body with no "instances" key, null
ConcurrentBodies ==
    {b \in Bodies :
        \/ /\ b.kind = "dict" /\ b.has /\ b.instances.kind = "list"
           /\ Len(b.instances.items) = 1
           /\ b.instances.items[1].kind = "dict"
           /\ \/ b.instances.items[1].d = [k \in Keys |-> IF k = ExtraKey THEN Str("abc") ELSE Num(1)]
              \/ b.instances.items[1].d = [k \in {"alcohol"} |-> Num(1)]
        \/ b.kind = "dict" /\ ~b.has
        \/ b.kind = "null"}

NextConcurrent ==
    \/ Startup
    \/ \E r \in Workers, route \in Routes : Arrive(r, route)
    \/ \E r \in Workers : index(r)
    \/ \E r \in Workers : predict(r, ConcurrentBodies)
    \/ \E r \in Workers : Reply(r)

ConcurrentSpec == Init /\ [][NextConcurrent]_vars

----------------------------------------------------------------------------
(* Properties *)

PredictDone(r) == req[r].pc = "done" /\ req[r].route = "POST /predict"

Items(r) == req[r].body.instances.items

\* the body is an object whose "instances" is a non-empty list
ListBody(r) ==
    /\ req[r].body.kind = "dict" /\ req[r].body.has
    /\ req[r].body.instances.kind = "list"
    /\ Len(Items(r)) > 0

\* the record is a mapping holding every schema name with a float-coercible value
RowWellFormed(row) ==
    /\ row.kind = "dict"
    /\ \A j \in 1..Len(FEATURE_ORDER) :
          /\ FEATURE_ORDER[j] \in DOMAIN row.d
          /\ float(row.d[FEATURE_ORDER[j]]).exc = ""

HasAllFeatures(row) ==
    /\ row.kind = "dict"
    /\ \A j \in 1..Len(FEATURE_ORDER) : FEATURE_ORDER[j] \in DOMAIN row.d

\* position (1-based) of the lowest-index record that is not well-formed; 0 if none
FirstInvalid(items) ==
    IF \A i \in 1..Len(items) : RowWellFormed(items[i]) THEN 0
    ELSE CHOOSE k \in 1..Len(items) :
            /\ ~RowWellFormed(items[k])
            /\ \A i \in 1..(k - 1) : RowWellFormed(items[i])

\* the error object of an error response
ErrorOf(r) == req[r].resp.error.v

\* position of a name in the schema
PosInSchema(f) == CHOOSE j \in 1..Len(FEATURE_ORDER) : FEATURE_ORDER[j] = f

C2_MissingFeaturesReported ==
    \A r \in Workers :
        (PredictDone(r) /\ ListBody(r)
            /\ FirstInvalid(Items(r)) # 0
            /\ Items(r)[FirstInvalid(Items(r))].kind = "dict"
            /\ ~HasAllFeatures(Items(r)[FirstInvalid(Items(r))]))
        => LET k == FirstInvalid(Items(r))
               row == Items(r)[k]
               feats == ErrorOf(r).feats
           IN  /\ req[r].status = 400
               /\ ErrorOf(r).msg = "missing"
               /\ ErrorOf(r).idx = k - 1
               /\ {feats[j] : j \in 1..Len(feats)}
                     = {FEATURE_ORDER[j] : j \in 1..Len(FEATURE_ORDER)} \ DOMAIN row.d
               /\ \A i, j \in 1..Len(feats) :
                     i < j => PosInSchema(feats[i]) < PosInSchema(feats[j])

C2_Witness ==
    \E r \in Workers :
        /\ PredictDone(r) /\ ListBody(r)
        /\ Len(Items(r)) = 2
        /\ Items(r)[1].kind = "dict" /\ DOMAIN Items(r)[1].d = {ExtraKey}
        /\ ~RowWellFormed(Items(r)[2])
        /\ req[r].status = 400
        /\ Len(ErrorOf(r).feats) = 2
        /\ ErrorOf(r).idx = 0

\* C3: when every record before position k is valid and record k holds every
\* schema name but some schema value is not float-coercible, the answer is
\* 400 and the error names position k and the first such feature in schema
\* order.
C3_NonNumericReported ==
    \A r \in Workers :
        (PredictDone(r) /\ ListBody(r)
            /\ FirstInvalid(Items(r)) # 0
            /\ HasAllFeatures(Items(r)[FirstInvalid(Items(r))]))
        => LET k == FirstInvalid(Items(r))
               row == Items(r)[k]
               bad == {j \in 1..Len(FEATURE_ORDER) : float(row.d[FEATURE_ORDER[j]]).exc # ""}
               first == CHOOSE j \in bad : \A i \in bad : j <= i
           IN  /\ req[r].status = 400
               /\ ErrorOf(r).msg = "not_numeric"
               /\ ErrorOf(r).idx = k - 1
               /\ ErrorOf(r).feats = <<FEATURE_ORDER[first]>>

C3_Witness ==
    \E r \in Workers :
        /\ PredictDone(r) /\ ListBody(r)
        /\ Len(Items(r)) = 2
        /\ RowWellFormed(Items(r)[1])
        /\ HasAllFeatures(Items(r)[2])
        /\ FEATURE_ORDER = <<"malic_acid", "alcohol">>
        /\ Items(r)[2].d["malic_acid"] = Null
        /\ Items(r)[2].d["alcohol"] = Str("abc")
        /\ req[r].status = 400
        /\ ErrorOf(r) = Err("not_numeric", 1, <<"malic_acid">>)

\* the body parsed as JSON and the parsed value has no "instances" key
NoInstancesKey(r) ==
    \/ req[r].body.kind = "dict" /\ ~req[r].body.has
    \/ req[r].body.kind \in {"list", "str", "num", "null"}

\* C4: a request whose parsed JSON body has no "instances" key (an object
\* without the key, a list, a string, a number, null) is answered 400 with
\* the error about the "instances" key.
C4_NoInstancesKeyIs400 ==
    \A r \in Workers :
        (PredictDone(r) /\ NoInstancesKey(r))
        => /\ req[r].status = 400
           /\ ErrorOf(r).msg = "no_instances_key"

Ok200(r) == PredictDone(r) /\ req[r].status = 200

ValidIds == 0..(Len(CLASS_NAMES) - 1)

\* C6: when the pipeline returns a class id that is no valid index of the
\* class label set (too large, or negative), the request ends 500.
C6_OutOfRangeIdIs500 ==
    \A r \in Workers :
        (PredictDone(r) /\ \E j \in 1..Len(req[r].preds) : req[r].preds[j] \notin ValidIds)
        => req[r].status = 500

\* the request itself failed validation
ValidationFailed(r) ==
    \/ NoInstancesKey(r)
    \/ req[r].val.exc = "ValueError"

\* C7: 400 is answered only when the request failed validation; a failure
\* after validation succeeded is answered 500.
C7_400OnlyForValidation ==
    \A r \in Workers :
        PredictDone(r) =>
            /\ req[r].status = 400 => ValidationFailed(r)
            /\ (req[r].val.exc = "" /\ req[r].status # 200) => req[r].status = 500

\* C8: in a 200 response predictions and classes have one entry per
\* instance, every prediction is a valid index of class_names, and classes[i]
\* is class_names[predictions[i]].
C8_ClassesMatchPredictions ==
    \A r \in Workers :
        Ok200(r) =>
            LET p == req[r].resp.predictions.v
                c == req[r].resp.classes.v
            IN  /\ Len(p) = Len(Items(r))
                /\ Len(c) = Len(Items(r))
                /\ \A i \in 1..Len(p) :
                      /\ p[i] \in ValidIds
                      /\ c[i] = req[r].resp.class_names.v[p[i] + 1]

\* C9: the service is uninitialized or ready; it is ready only if both
\* artifacts were on disk at start-up; a worker holds a request only while
\* the service is ready; and once ready it stays ready.
C9_Lifecycle ==
    /\ [](/\ state \in {"uninitialized", "ready"}
          /\ state = "ready" => (modelFile.exists /\ featuresFile.exists /\ ~exited)
          /\ (\E r \in Workers : req[r].pc # "idle") => state = "ready")
    /\ [][state = "ready" => state' = "ready"]_vars

C9_Witness ==
    /\ state = "ready"
    /\ \E r1, r2 \in Workers :
          /\ req[r1].pc = "done" /\ req[r1].route = "GET /"
          /\ Ok200(r2)

\* C10: once the service is ready no step changes the fitted pipeline, the
\* feature schema or the class label set, and a step changes the request
\* data of at most one worker.
C10_GlobalsReadOnly ==
    [][state = "ready" =>
          /\ globals' = globals
          /\ \A r1, r2 \in Workers :
                (r1 # r2 /\ req'[r1] # req[r1]) => req'[r2] = req[r2]]_vars

C10_Witness ==
    /\ state = "ready"
    /\ \E r1, r2 \in Workers :
          /\ r1 # r2
          /\ Ok200(r1)
          /\ PredictDone(r2) /\ req[r2].status = 400
          /\ globals = <<modelFile.pipeline, featuresFile.feature_order, WineClassNames>>

====
